---- MODULE Spec2Model ----
(***************************************************************************)
(* Model of Final2.cpp: the A* grid search (aStar) and the priority-bucket *)
(* planner loop of main.  The state is main's locals, the locals of the    *)
(* aStar invocation in progress, and two history variables: the lines      *)
(* printed per leg (report) and the set of cells that were expanded        *)
(* again after it was closed in the current invocation (reexpanded).       *)
(***************************************************************************)
EXTENDS Integers, Sequences, FiniteSets

VARIABLES
    map,                        \* main: vector<vector<int>> map          (line 128)
    destinationsAndPriorities,  \* main: input destination list           (line 129)
    startX, startY,             \* main: the current origin               (lines 123, 160-161)
    buckets,                    \* main: buckets[0..3]                    (line 132)
    bi,                         \* main: position of the range-for of line 133
    priority, idx,              \* main: position of the loops of lines 146-147
    destX, destY,               \* aStar: the target                      (lines 148-149)
    visited,                    \* aStar: visited[rows][cols]             (line 74)
    pq,                         \* aStar: the Nodes whose pointers are in the priority queue (line 78)
    path,                       \* main: the vector aStar returned        (line 151)
    pc,                         \* main: control position
    report,                     \* history: one entry per leg printed     (lines 153-162)
    reexpanded                  \* history: cells expanded while already marked visited

vars == <<map, destinationsAndPriorities, startX, startY, buckets, bi, priority, idx,
          destX, destY, visited, pq, path, pc, report, reexpanded>>

----------------------------------------------------------------------------
(* Bounds of the model *)

GridRows == 2
GridCols == 3
MaxObstacles == 2
MaxDests == 3

(* Program constants *)

NumBuckets == 4
MaxPriority == 3
Obstacle == 1
StartMarker == 2

----------------------------------------------------------------------------
(* Helpers of aStar *)

Abs(n) == IF n < 0 THEN -n ELSE n

\* Mutant heuristic that overestimates the remaining cost.
heuristicOverweight(x, y, dX, dY) == 3 * (Abs(dX - x) + Abs(dY - y))

\* int heuristic(int x, int y, int destX, int destY)
heuristic(x, y, dX, dY) == Abs(dX - x) + Abs(dY - y)

\* bool isValid(int x, int y, int rows, int cols)
isValid(x, y, rows, cols) == x >= 0 /\ y >= 0 /\ x < rows /\ y < cols

\* map.size() and map[0].size()
rowsOf(m) == Cardinality(DOMAIN m)
colsOf(m) == Cardinality(DOMAIN m[0])

\* Node(_x, _y, _g, _h, _parent).  A Node* is modelled by the node it points to:
\* parent is <<>> for nullptr and <<n>> for a pointer to node n.  Two live nodes
\* never have equal contents, because a node is popped once and pushes at most
\* one node per direction.
Node(x, y, g, h, parent) == [x |-> x, y |-> y, g |-> g, h |-> h, parent |-> parent]

\* int Node::f() const
f(n) == n.g + n.h

\* The mutant comparator orders the queue by descending total cost.
pqCompareReversed(a, b) == f(a) < f(b)

\* The comparator of the priority queue: [](Node* a, Node* b) { return a->f() > b->f(); }
pqCompare(a, b) == f(a) > f(b)

\* pq.top(): an element no other element is ordered after; among elements of
\* equal f the choice is the implementation's, so every such element is a candidate.
pqTop(q) == {a \in q : \A b \in q : ~pqCompare(a, b)}

\* Mutant move table with a diagonal step.
dxDiagonal == <<1, -1, 1, 0>>

\* int dx[] = {1, -1, 0, 0};  int dy[] = {0, 0, 1, -1};
dx == <<1, -1, 0, 0>>
dy == <<0, 0, 1, -1>>

\* Mutant guard that forgets the obstacle test.
canPushNoObstacleTest(m, vis, nx, ny) ==
    isValid(nx, ny, rowsOf(m), colsOf(m)) /\ ~vis[nx][ny]

\* Mutant guard with an off-by-one column limit.
canPushShortCols(m, vis, nx, ny) ==
    isValid(nx, ny, rowsOf(m), colsOf(m) - 1) /\ ~vis[nx][ny] /\ m[nx][ny] # Obstacle

\* if (isValid(newX, newY, rows, cols) && !visited[newX][newY] && map[newX][newY] != 1)
canPush(m, vis, nx, ny) ==
    isValid(nx, ny, rowsOf(m), colsOf(m)) /\ ~vis[nx][ny] /\ m[nx][ny] # Obstacle

\* Mutant: pq.top() without pq.pop().
pqPopKeeps(q, current) == q

\* pq.pop() after current = pq.top()
pqPop(q, current) == q \ {current}

\* The for loop of lines 105-116, iterations i..4: the queue after the pushes.
RECURSIVE pushNeighbours(_, _, _, _, _, _, _)
pushNeighbours(m, vis, q, current, dX, dY, i) ==
    IF i > 4 THEN q
    ELSE LET newX == current.x + dx[i]
             newY == current.y + dy[i]
             newG == current.g + 1
             newH == heuristic(newX, newY, dX, dY)
             newNode == Node(newX, newY, newG, newH, <<current>>)
         IN  IF canPush(m, vis, newX, newY)
             THEN pushNeighbours(m, vis, q \cup {newNode}, current, dX, dY, i + 1)
             ELSE pushNeighbours(m, vis, q, current, dX, dY, i + 1)

\* while (current != nullptr) { path.emplace_back(...); current = current->parent; }
\* ptr is <<>> or <<node>>.
RECURSIVE walkBack(_)
walkBack(ptr) ==
    IF ptr = <<>> THEN <<>>
    ELSE <<(<<ptr[1].x, ptr[1].y>>)>> \o walkBack(ptr[1].parent)

\* reverse(path.begin(), path.end())
reverse(s) == [k \in 1..Len(s) |-> s[Len(s) + 1 - k]]

----------------------------------------------------------------------------
(* Inputs *)

CellsOf(rows, cols) == (0..(rows - 1)) \X (0..(cols - 1))

\* The matrix readMapFromFile builds for a grid with one start marker at s and
\* obstacles at the cells of obs.
MakeMap(rows, cols, s, obs) ==
    [i \in 0..(rows - 1) |-> [j \in 0..(cols - 1) |->
        IF <<i, j>> = s THEN StartMarker ELSE IF <<i, j>> \in obs THEN Obstacle ELSE 0]]

Dest(c, p) == [dest |-> c, pr |-> p]

RECURSIVE SeqsUpTo(_, _)
SeqsUpTo(S, n) ==
    IF n = 0 THEN {<<>>}
    ELSE LET shorter == SeqsUpTo(S, n - 1)
         IN  shorter \cup {Append(s, e) : s \in {t \in shorter : Len(t) = n - 1}, e \in S}

\* Every target tried by the single-leg inputs: the grid and the ring around it.
SearchTargets == ((-1)..GridRows) \X ((-1)..GridCols)

ObstacleSets == {obs \in SUBSET CellsOf(GridRows, GridCols) : Cardinality(obs) <= MaxObstacles}

\* Grids of the multi-leg inputs: start in the corner, either free or with the
\* opposite corner of row 0 walled in.
PlanObstacles == { {}, {<<0, GridCols - 2>>, <<1, GridCols - 1>>} }

\* Targets of the multi-leg inputs: the corner that one grid walls in, the far
\* corner and a cell beyond the last row.
PlanTargets == { <<0, GridCols - 1>>, <<GridRows - 1, GridCols - 1>>, <<GridRows, 0>> }

PlanDests == {Dest(c, p) : c \in PlanTargets, p \in 1..MaxPriority}

\* The worked scenario: 5x5, obstacles at column 2 in rows 0 to 3, start (0,0).
ScenarioMap == MakeMap(5, 5, <<0, 0>>, {<<0, 2>>, <<1, 2>>, <<2, 2>>, <<3, 2>>})
ScenarioDests == << Dest(<<4, 4>>, 1), Dest(<<0, 4>>, 2) >>

\* The state when main reaches line 131, for a given grid and destination list.
InitWith(m, s, dests) ==
    /\ map = m
    /\ destinationsAndPriorities = dests
    /\ startX = s[1]
    /\ startY = s[2]
    /\ buckets = [b \in 0..(NumBuckets - 1) |-> <<>>]
    /\ bi = 1
    /\ priority = 0
    /\ idx = 0
    /\ destX = 0
    /\ destY = 0
    /\ visited = <<>>
    /\ pq = {}
    /\ path = <<>>
    /\ pc = "bucket"
    /\ report = <<>>
    /\ reexpanded = {}

InitSearch ==
    \E s \in CellsOf(GridRows, GridCols), obs \in ObstacleSets, t \in SearchTargets :
        /\ s \notin obs
        /\ InitWith(MakeMap(GridRows, GridCols, s, obs), s, <<Dest(t, 1)>>)

InitPlan ==
    \E obs \in PlanObstacles, dests \in SeqsUpTo(PlanDests, MaxDests) :
        InitWith(MakeMap(GridRows, GridCols, <<0, 0>>, obs), <<0, 0>>, dests)

InitScenario == InitWith(ScenarioMap, <<0, 0>>, ScenarioDests)

Init == InitSearch \/ InitPlan \/ InitScenario

----------------------------------------------------------------------------
\* Mutant: the destination is inserted at the front of its bucket.
bucketPushFront(bs, d) == [bs EXCEPT ![d.pr] = <<d.dest>> \o @]

\* buckets[priority].push_back(destination)
bucketPush(bs, d) == [bs EXCEPT ![d.pr] = Append(@, d.dest)]

(* main, lines 131-135: one iteration of the bucketing loop *)

BucketPush ==
    /\ pc = "bucket"
    /\ bi <= Len(destinationsAndPriorities)
    /\ buckets' = bucketPush(buckets, destinationsAndPriorities[bi])
    /\ bi' = bi + 1
    /\ UNCHANGED <<map, destinationsAndPriorities, startX, startY, priority, idx,
                   destX, destY, visited, pq, path, pc, report, reexpanded>>

\* The bucketing loop ends; lines 137-146 print the buckets and enter the planner loop.
BucketDone ==
    /\ pc = "bucket"
    /\ bi > Len(destinationsAndPriorities)
    /\ pc' = "plan"
    /\ priority' = 1
    /\ idx' = 1
    /\ UNCHANGED <<map, destinationsAndPriorities, startX, startY, buckets, bi,
                   destX, destY, visited, pq, path, report, reexpanded>>

\* Line 146: the inner loop over buckets[priority] is exhausted, ++priority.
NextPriority ==
    /\ pc = "plan"
    /\ priority <= MaxPriority
    /\ idx > Len(buckets[priority])
    /\ priority' = priority + 1
    /\ idx' = 1
    /\ UNCHANGED <<map, destinationsAndPriorities, startX, startY, buckets, bi,
                   destX, destY, visited, pq, path, pc, report, reexpanded>>

\* Lines 147-151 and 72-82: take the next destination and enter aStar.
CallAStar ==
    /\ pc = "plan"
    /\ priority <= MaxPriority
    /\ idx <= Len(buckets[priority])
    /\ LET destination == buckets[priority][idx]
           rows == rowsOf(map)
           cols == colsOf(map)
       IN  /\ destX' = destination[1]
           /\ destY' = destination[2]
           /\ visited' = [i \in 0..(rows - 1) |-> [j \in 0..(cols - 1) |-> FALSE]]
           /\ pq' = { Node(startX, startY, 0,
                            heuristic(startX, startY, destination[1], destination[2]), <<>>) }
           /\ reexpanded' = {}
    /\ pc' = "search"
    /\ UNCHANGED <<map, destinationsAndPriorities, startX, startY, buckets, bi,
                   priority, idx, path, report>>

\* Lines 85-97: the popped node is on the target; rebuild the path and return.
AStarGoal ==
    /\ pc = "search"
    /\ \E current \in pqTop(pq) :
        /\ current.x = destX /\ current.y = destY
        /\ path' = reverse(walkBack(<<current>>))
    /\ pc' = "returned"
    /\ visited' = <<>>
    /\ pq' = {}
    /\ reexpanded' = {}
    /\ UNCHANGED <<map, destinationsAndPriorities, startX, startY, buckets, bi,
                   priority, idx, destX, destY, report>>

\* Lines 85-116: the popped node is not on the target; mark it and push its neighbours.
AStarExpand ==
    /\ pc = "search"
    /\ \E current \in pqTop(pq) :
        /\ ~(current.x = destX /\ current.y = destY)
        /\ LET vis == [visited EXCEPT ![current.x][current.y] = TRUE]
           IN  /\ visited' = vis
               /\ pq' = pushNeighbours(map, vis, pqPop(pq, current), current, destX, destY, 1)
        /\ reexpanded' = IF visited[current.x][current.y]
                         THEN reexpanded \cup {<<current.x, current.y>>}
                         ELSE reexpanded
    /\ UNCHANGED <<map, destinationsAndPriorities, startX, startY, buckets, bi,
                   priority, idx, destX, destY, path, pc, report>>

\* Lines 84 and 119: the queue is empty; return the empty path.
AStarEmpty ==
    /\ pc = "search"
    /\ pq = {}
    /\ path' = <<>>
    /\ pc' = "returned"
    /\ visited' = <<>>
    /\ reexpanded' = {}
    /\ UNCHANGED <<map, destinationsAndPriorities, startX, startY, buckets, bi,
                   priority, idx, destX, destY, pq, report>>

\* Mutant: the origin moves to the destination whether or not a path was found.
newStartAlways(p, sx, sy, dX, dY) == <<dX, dY>>

\* Mutant: the origin is never moved.
newStartNever(p, sx, sy, dX, dY) == <<sx, sy>>

\* Lines 153-162: startX, startY after the leg.
newStart(p, sx, sy, dX, dY) == IF p = <<>> THEN <<sx, sy>> ELSE <<dX, dY>>

\* Lines 153-163: print the leg, move the origin on success, go to the next destination.
RecordLeg ==
    /\ pc = "returned"
    /\ report' = Append(report, [dest |-> <<destX, destY>>, priority |-> priority,
                                 origin |-> <<startX, startY>>, path |-> path])
    /\ LET s == newStart(path, startX, startY, destX, destY)
       IN  startX' = s[1] /\ startY' = s[2]
    /\ idx' = idx + 1
    /\ pc' = "plan"
    /\ UNCHANGED <<map, destinationsAndPriorities, buckets, bi, priority,
                   destX, destY, visited, pq, path, reexpanded>>

\* Line 166: the planner loop is over.
AllDone ==
    /\ pc = "plan"
    /\ priority > MaxPriority
    /\ pc' = "done"
    /\ UNCHANGED <<map, destinationsAndPriorities, startX, startY, buckets, bi, priority, idx,
                   destX, destY, visited, pq, path, report, reexpanded>>

Next ==
    \/ BucketPush
    \/ BucketDone
    \/ NextPriority
    \/ CallAStar
    \/ AStarGoal
    \/ AStarExpand
    \/ AStarEmpty
    \/ RecordLeg
    \/ AllDone

Spec == Init /\ [][Next]_vars

\* main is one sequential thread that always takes its next step.  The liveness
\* specification runs the single-leg and the multi-leg inputs.
InitLive == InitSearch \/ InitPlan

SpecLive == InitLive /\ [][Next]_vars /\ WF_vars(Next)

----------------------------------------------------------------------------
(* Reference notions the properties are stated with; none of them is used  *)
(* by the actions.                                                         *)

Origin == <<startX, startY>>
Target == <<destX, destY>>

InGrid(m, c) == c[1] >= 0 /\ c[2] >= 0 /\ c[1] < rowsOf(m) /\ c[2] < colsOf(m)

Passable(m, c) == InGrid(m, c) /\ m[c[1]][c[2]] # Obstacle

Adjacent4(a, b) == Abs(a[1] - b[1]) + Abs(a[2] - b[2]) = 1

StartCell(m) == CHOOSE c \in CellsOf(rowsOf(m), colsOf(m)) : m[c[1]][c[2]] = StartMarker

\* Breadth-first search by layers: the number of steps of a shortest path of
\* 4-adjacent non-obstacle cells to t, or -1 when there is none.
RECURSIVE BfsLayers(_, _, _, _, _)
BfsLayers(m, frontier, seen, t, d) ==
    IF t \in frontier THEN d
    ELSE LET next == {c \in CellsOf(rowsOf(m), colsOf(m)) :
                        /\ c \notin seen
                        /\ Passable(m, c)
                        /\ \E a \in frontier : Adjacent4(a, c)}
         IN  IF next = {} THEN -1 ELSE BfsLayers(m, next, seen \cup next, t, d + 1)

BfsDist(m, o, t) == BfsLayers(m, {o}, {o}, t, 0)

\* The destinations in the order the planner must attempt them.
ByTier(s, p) == SelectSeq(s, LAMBDA d : d.pr = p)
StableByTier(s) == ByTier(s, 1) \o ByTier(s, 2) \o ByTier(s, 3)

Attempted == [k \in 1..Len(report) |-> Dest(report[k].dest, report[k].priority)]

IsPrefix(s, t) == Len(s) <= Len(t) /\ \A k \in 1..Len(s) : s[k] = t[k]

\* The origin the leg after leg k must use.
OriginAfter(k) == IF report[k].path # <<>> THEN report[k].dest ELSE report[k].origin

IsScenario == map = ScenarioMap /\ destinationsAndPriorities = ScenarioDests

InRange(s) == {s[k] : k \in 1..Len(s)}

----------------------------------------------------------------------------
(* Properties *)

\* C1 (optimality): when aStar returns for a target that is reachable from the
\* origin, the returned path has exactly BFS-distance + 1 cells, whichever of
\* the equal-f nodes the queue popped.
C1_Optimal ==
    pc = "returned" =>
        LET d == BfsDist(map, Origin, Target)
        IN  d >= 0 => Len(path) = d + 1

\* A search that returned a path for a target that needs a detour around obstacles.
C1_Witness ==
    /\ pc = "returned"
    /\ path # <<>>
    /\ BfsDist(map, Origin, Target) > heuristic(startX, startY, destX, destY)

\* C2 (soundness): a non-empty returned path starts at the origin, ends at the
\* target, moves by one 4-adjacent step at a time and only visits non-obstacle
\* cells of the grid.
C2_Sound ==
    (pc = "returned" /\ path # <<>>) =>
        /\ path[1] = Origin
        /\ path[Len(path)] = Target
        /\ \A k \in 1..(Len(path) - 1) : Adjacent4(path[k], path[k + 1])
        /\ \A k \in 1..Len(path) : Passable(map, path[k])

\* A returned path of at least four cells on a grid that has obstacles.
C2_Witness ==
    /\ pc = "returned"
    /\ Len(path) >= 4
    /\ \E c \in CellsOf(rowsOf(map), colsOf(map)) : map[c[1]][c[2]] = Obstacle

\* C3 (completeness): the returned path is non-empty exactly when the target is
\* reachable from the origin; an unreachable target gives the empty path as an
\* ordinary return.
C3_Complete ==
    pc = "returned" => (path # <<>> <=> BfsDist(map, Origin, Target) >= 0)

\* A search that returned the empty path for a free in-grid target that
\* obstacles cut off from the origin.
C3_Witness ==
    /\ pc = "returned"
    /\ path = <<>>
    /\ InGrid(map, Target)
    /\ map[destX][destY] = 0

\* C4 (origin chaining): the first leg starts at the grid's start cell; the leg
\* after a successful leg to D starts at D; the leg after a failed leg starts
\* where the failed leg started.  The current origin and the root of every
\* node of a running search follow the same rule.
C4_OriginChaining ==
    /\ Len(report) >= 1 => report[1].origin = StartCell(map)
    /\ \A k \in 1..(Len(report) - 1) : report[k + 1].origin = OriginAfter(k)
    /\ Origin = IF report = <<>> THEN StartCell(map) ELSE OriginAfter(Len(report))
    /\ pc = "search" => \A n \in pq : reverse(walkBack(<<n>>))[1] = Origin

\* A successful leg to a cell other than the start followed by a failed leg.
C4_Witness ==
    /\ Len(report) = 2
    /\ report[1].path # <<>>
    /\ report[1].dest # StartCell(map)
    /\ report[2].path = <<>>
    /\ report[2].origin = report[1].dest
    /\ Origin = report[1].dest

\* C5 (tier ordering, no halting): the destinations attempted so far are a
\* prefix of the input stably sorted by tier, and at the end of the run they
\* are the whole sorted input, whichever legs failed.
C5_TierOrder ==
    /\ IsPrefix(Attempted, StableByTier(destinationsAndPriorities))
    /\ pc = "done" => Attempted = StableByTier(destinationsAndPriorities)

\* A finished run whose input had a tier-2 destination before two different
\* tier-1 destinations, and whose first attempted leg failed.
C5_Witness ==
    /\ pc = "done"
    /\ Len(destinationsAndPriorities) = 3
    /\ destinationsAndPriorities[1].pr = 2
    /\ destinationsAndPriorities[2].pr = 1
    /\ destinationsAndPriorities[3].pr = 1
    /\ destinationsAndPriorities[2].dest # destinationsAndPriorities[3].dest
    /\ Len(report) = 3
    /\ report[1].path = <<>>
    /\ report[2].path # <<>>

\* C6 as stated (worked scenario): both legs succeed, leg 1 has 8 steps through
\* (4,2), leg 2 starts at (4,4) and its path to (0,4) has 8 steps.
C6_ScenarioAsStated ==
    (IsScenario /\ pc = "done") =>
        /\ Len(report) = 2
        /\ report[1].dest = <<4, 4>> /\ Len(report[1].path) = 8 + 1
        /\ <<4, 2>> \in InRange(report[1].path)
        /\ report[2].origin = <<4, 4>>
        /\ report[2].dest = <<0, 4>> /\ Len(report[2].path) = 8 + 1

\* C6 amended: as stated, except that leg 2's path from (4,4) to (0,4) has 4
\* steps (column 4 is free).
C6_Scenario ==
    (IsScenario /\ pc = "done") =>
        /\ Len(report) = 2
        /\ report[1].dest = <<4, 4>> /\ Len(report[1].path) = 8 + 1
        /\ <<4, 2>> \in InRange(report[1].path)
        /\ report[2].origin = <<4, 4>>
        /\ report[2].dest = <<0, 4>> /\ Len(report[2].path) = 4 + 1

\* The scenario run finished with two reported legs.
C6_Witness == IsScenario /\ pc = "done" /\ Len(report) = 2 /\ report[2].path # <<>>

\* C7 (out-of-bounds destination): a leg whose destination lies outside the
\* grid is reported with the empty path, leaves the origin where it was, and
\* the run still attempts every destination.
C7_OutOfBounds ==
    /\ \A k \in 1..Len(report) :
          ~InGrid(map, report[k].dest) =>
              /\ report[k].path = <<>>
              /\ IF k < Len(report) THEN report[k + 1].origin = report[k].origin
                                    ELSE Origin = report[k].origin
    /\ (pc = "returned" /\ ~InGrid(map, Target)) => path = <<>>
    /\ pc = "done" => Len(report) = Len(destinationsAndPriorities)

\* A finished run in which a leg to a cell outside the grid came between two
\* successful legs.
C7_Witness ==
    /\ pc = "done"
    /\ Len(report) = 3
    /\ report[1].path # <<>>
    /\ ~InGrid(map, report[2].dest)
    /\ report[3].path # <<>>
    /\ report[3].origin = report[1].dest

\* C8 (closed-set discipline): within one invocation no cell is expanded again
\* after it was marked closed.
C8_ExpandedOnce == reexpanded = {}

\* C9 (termination): every aStar invocation returns, and the run reaches the
\* end of the planner loop.
C9_Terminates == ((pc = "search") ~> (pc = "returned")) /\ <>(pc = "done")

\* A search whose queue holds two nodes on the same cell.
C9_Witness ==
    /\ pc = "search"
    /\ \E a, b \in pq : a # b /\ a.x = b.x /\ a.y = b.y

\* C10 (node validity): every node in the queue lies on an in-grid non-obstacle
\* cell, and so does the origin at every point of the run.
C10_NodesValid ==
    /\ \A n \in pq : Passable(map, <<n.x, n.y>>)
    /\ Passable(map, Origin)

\* A second leg's search, started from a reached destination, with pushed nodes.
C10_Witness ==
    /\ pc = "search"
    /\ Len(report) >= 1
    /\ Origin # StartCell(map)
    /\ Cardinality(pq) >= 2

====
